---- MODULE Spec2Model ----
(***************************************************************************)
(* Model of the time-tracking Discord bot (src/bot.py): the two worksheets *)
(* "Logs" and "Totaux", the commands that append events to the first, and  *)
(* calculate_daily_hours, which rebuilds a day's worked time from the      *)
(* events and upserts it into the second.                                  *)
(*                                                                         *)
(* A Python str is a sequence of one-character strings, so that strftime,  *)
(* strptime, the f-string of the duration and the string sort are computed *)
(* the way the code computes them.                                         *)
(***************************************************************************)
EXTENDS Integers, Sequences, FiniteSets, TLC

\* ------------------------------------------------------------------ bounds

\* Rows of the "Logs" sheet below the header.
MaxLog == 4

\* ----------------------------------------------------------------- strings

\* Python's None. A value that may be None is the empty tuple when it is, and
\* what Some makes of it otherwise; a str and a worksheet are never empty.
None == <<>>

Some(x) == <<x>>

\* The value of an optional that is not None.
The(opt) == opt[1]

\* The characters the model's strings use, in code-point order.
Alphabet == <<"-", "0", "1", "2", "3", "4", "5", "6", "7", "8", "9", ":",
              "h", "m", "s", "x">>

Ord(c) == CHOOSE i \in 1..Len(Alphabet) : Alphabet[i] = c

DigitChar(d) == Alphabet[d + 2]

IsDigit(c) == c \in {DigitChar(d) : d \in 0..9}

DigitVal(c) == Ord(c) - 2

\* str < str: the first differing character decides, a proper prefix is less.
RECURSIVE StrLess(_, _)
StrLess(a, b) ==
    IF b = <<>> THEN FALSE
    ELSE IF a = <<>> THEN TRUE
    ELSE IF Head(a) # Head(b) THEN Ord(Head(a)) < Ord(Head(b))
    ELSE StrLess(Tail(a), Tail(b))

\* str(n) for an int.
RECURSIVE NatStr(_)
NatStr(n) == IF n < 10 THEN <<DigitChar(n)>>
             ELSE NatStr(n \div 10) \o <<DigitChar(n % 10)>>

IntStr(n) == IF n < 0 THEN <<"-">> \o NatStr(-n) ELSE NatStr(n)

\* A variant of Pad02 that does not pad: C10 tells it from Pad02.
Pad02Unpadded(n) == IntStr(n)

\* format(n, "02d"): at least two characters, zero-padded.
Pad02(n) == IF 0 <= n /\ n < 10 THEN <<"0">> \o NatStr(n) ELSE IntStr(n)

\* strftime("%H:%M:%S") of a time of day given in seconds since midnight.
strftime_HMS(secs) ==
    Pad02(secs \div 3600) \o <<":">> \o Pad02((secs % 3600) \div 60)
        \o <<":">> \o Pad02(secs % 60)

\* The positions of ":" in a string.
Colons(s) == {i \in 1..Len(s) : s[i] = ":"}

\* One numeric field of strptime: one or two digits; its value, or -1.
Field(s) ==
    IF Len(s) \in {1, 2} /\ \A i \in 1..Len(s) : IsDigit(s[i])
    THEN IF Len(s) = 1 THEN DigitVal(s[1])
         ELSE 10 * DigitVal(s[1]) + DigitVal(s[2])
    ELSE -1

\* A call that raised ValueError, and one that returned `v`.
ValueError == [raised |-> TRUE, value |-> 0]

Returned(v) == [raised |-> FALSE, value |-> v]

\* The time of day of three parsed fields, as seconds since midnight, or the
\* ValueError of a field that is missing or out of range: hour 0..23, minute
\* 0..59, second 0..59.
TimeOfDay(h, m, sc) ==
    IF h \in 0..23 /\ m \in 0..59 /\ sc \in 0..59
    THEN Returned(h * 3600 + m * 60 + sc)
    ELSE ValueError

\* The three fields of a string whose two ":" stand at c1 and c2.
SplitTime(s, c1, c2) ==
    TimeOfDay(Field(SubSeq(s, 1, c1 - 1)),
              Field(SubSeq(s, c1 + 1, c2 - 1)),
              Field(SubSeq(s, c2 + 1, Len(s))))

\* datetime.strptime(s, '%H:%M:%S').time(), as seconds since midnight, or the
\* ValueError it raises: three fields of one or two digits separated by ":".
strptime_HMS(s) ==
    IF Cardinality(Colons(s)) # 2 THEN ValueError
    ELSE SplitTime(s, CHOOSE i \in Colons(s) : \A j \in Colons(s) : i <= j,
                      CHOOSE i \in Colons(s) : \A j \in Colons(s) : j <= i)

\* ------------------------------------------------------------------ sheets

\* A worksheet is the sequence of its rows, the header row first; a row is the
\* tuple of its cells.
\* The header cells "Événement" and "Heures Travaillées" are written without
\* their accents.
LogsHeader == <<"Nom", "Date", "Heure", "Evenement">>

TotauxHeader == <<"Nom", "Date", "Heures Travaillees">>

\* Worksheet.get_all_records(): one record per row below the header, keyed by
\* the header's cells.
LogRecords(sheet) ==
    [i \in 1..(Len(sheet) - 1) |->
        [Nom |-> sheet[i + 1][1], Date |-> sheet[i + 1][2],
         Heure |-> sheet[i + 1][3], Evenement |-> sheet[i + 1][4]]]

TotalRecords(sheet) ==
    [i \in 1..(Len(sheet) - 1) |->
        [Nom |-> sheet[i + 1][1], Date |-> sheet[i + 1][2],
         Heures |-> sheet[i + 1][3]]]

\* Worksheet.update_cell(row, col, value), rows and columns counted from 1.
update_cell(sheet, row, col, value) ==
    [sheet EXCEPT ![row] = [@ EXCEPT ![col] = value]]

\* Worksheet.append_row(values).
append_row(sheet, values) == Append(sheet, values)

\* [r for r in records if r['Nom'] == username and r['Date'] == date_str]
RECURSIVE UserRecords(_, _, _)
UserRecords(records, username, date_str) ==
    IF records = <<>> THEN <<>>
    ELSE LET r == Head(records)
             rest == UserRecords(Tail(records), username, date_str)
         IN IF r.Nom = username /\ r.Date = date_str THEN <<r>> \o rest
            ELSE rest

\* list.sort(key=lambda x: x['Heure']): a stable sort on the time string.
RECURSIVE InsertByHeure(_, _)
InsertByHeure(sorted, r) ==
    IF sorted = <<>> THEN <<r>>
    ELSE IF StrLess(r.Heure, Head(sorted).Heure) THEN <<r>> \o sorted
    ELSE <<Head(sorted)>> \o InsertByHeure(Tail(sorted), r)

RECURSIVE SortByHeure(_)
SortByHeure(records) ==
    IF records = <<>> THEN <<>>
    ELSE InsertByHeure(SortByHeure(SubSeq(records, 1, Len(records) - 1)),
                       records[Len(records)])

\* ----------------------------------------------------- session reconstruction

\* The scan's local variables before the first record.
ScanInit ==
    [total_seconds |-> 0, current_session_start |-> None, in_break |-> FALSE,
     break_start |-> None, raised |-> FALSE]

\* The branches of the loop body on the event of a record whose time parsed
\* to event_time. A datetime.time is truthy whatever its value, so
\* "if current_session_start" asks only whether it is set.
ScanEvent(st, Evenement, event_time) ==
    IF Evenement = "CHECK IN"
    THEN IF st.current_session_start = None
         THEN [st EXCEPT !.current_session_start = Some(event_time)]
         ELSE st
    ELSE IF Evenement = "BREAK"
    THEN IF ~st.in_break /\ st.current_session_start # None
         THEN [st EXCEPT
                 !.total_seconds =
                     @ + (event_time - The(st.current_session_start)),
                 !.in_break = TRUE,
                 !.break_start = Some(event_time)]
         ELSE IF st.in_break
         THEN [st EXCEPT !.in_break = FALSE,
                         !.current_session_start = Some(event_time)]
         ELSE st
    ELSE IF Evenement = "CHECK OUT"
    THEN IF st.current_session_start # None /\ ~st.in_break
         THEN [st EXCEPT
                 !.total_seconds =
                     @ + (event_time - The(st.current_session_start)),
                 !.current_session_start = None]
         ELSE [st EXCEPT !.current_session_start = None]
    ELSE st

\* A variant of ScanParsed that passes over the break tag: C3 tells it from
\* ScanParsed.
ScanParsedNoBreak(st, Evenement, parsed) ==
    IF parsed.raised THEN [st EXCEPT !.raised = TRUE]
    ELSE ScanEvent(st, IF Evenement = "BREAK" THEN "" ELSE Evenement,
                   parsed.value)

\* A variant of ScanParsed in which every check-in starts the session anew:
\* C13 tells it from ScanParsed.
ScanParsedCheckInResets(st, Evenement, parsed) ==
    IF parsed.raised THEN [st EXCEPT !.raised = TRUE]
    ELSE ScanEvent(IF Evenement = "CHECK IN"
                   THEN [st EXCEPT !.current_session_start = None]
                   ELSE st,
                   Evenement, parsed.value)

\* A variant of ScanParsed in which a check-out ends a break before it closes
\* the session: C14 tells it from ScanParsed.
ScanParsedCheckOutEndsBreak(st, Evenement, parsed) ==
    IF parsed.raised THEN [st EXCEPT !.raised = TRUE]
    ELSE ScanEvent(IF Evenement = "CHECK OUT"
                   THEN [st EXCEPT !.in_break = FALSE]
                   ELSE st,
                   Evenement, parsed.value)

\* The loop body once the record's time cell has gone through strptime.
ScanParsed(st, Evenement, parsed) ==
    IF parsed.raised THEN [st EXCEPT !.raised = TRUE]
    ELSE ScanEvent(st, Evenement, parsed.value)

\* A variant of ScanStep that takes a check-out for a break tag: C1 tells it
\* from ScanStep.
ScanStepOutAsBreak(st, record) ==
    ScanParsed(st,
               IF record.Evenement = "CHECK OUT" THEN "BREAK"
               ELSE record.Evenement,
               strptime_HMS(record.Heure))

\* One pass of the loop body for `record`.
ScanStep(st, record) ==
    ScanParsed(st, record.Evenement, strptime_HMS(record.Heure))

\* for record in user_records: the loop stops at the first record whose time
\* does not parse.
RECURSIVE Scan(_, _)
Scan(st, user_records) ==
    IF user_records = <<>> \/ st.raised THEN st
    ELSE Scan(ScanStep(st, Head(user_records)), Tail(user_records))

\* "Handle case where user is still in a break at the end of records": the
\* total_seconds after the loop that ended in `st`, or the loop's ValueError.
EndOfRecords(st) ==
    IF st.raised THEN ValueError
    ELSE IF /\ st.in_break
            /\ st.break_start # None
            /\ st.current_session_start # None
    THEN Returned(st.total_seconds
                  + (The(st.break_start) - The(st.current_session_start)))
    ELSE Returned(st.total_seconds)

\* total_seconds of the sorted records of one user and date, or ValueError.
TotalSeconds(user_records) == EndOfRecords(Scan(ScanInit, user_records))

\* f"{hours}h{minutes:02d}m{seconds:02d}s" of the floor divisions.
FormatTime(total_seconds) ==
    LET hours   == total_seconds \div 3600
        minutes == (total_seconds % 3600) \div 60
        seconds == total_seconds % 60
    IN IntStr(hours) \o <<"h">> \o Pad02(minutes) \o <<"m">>
           \o Pad02(seconds) \o <<"s">>

\* ----------------------------------------------------------------- upsert

\* A variant of MatchingRows that finds no row: C6 tells it from MatchingRows.
NoMatchingRows(existing_entries, username, date_str) == {}

\* The sheet rows (counted from 2) whose record matches the user and date.
MatchingRows(existing_entries, username, date_str) ==
    {i \in 2..(Len(existing_entries) + 1) :
        /\ existing_entries[i - 1].Nom = username
        /\ existing_entries[i - 1].Date = date_str}

\* The row the for loop reaches first.
FirstRow(rows) == CHOOSE i \in rows : \A j \in rows : i <= j

\* A variant of Upsert that appends whatever the sheet holds: C4 tells it from
\* Upsert.
UpsertAppends(totals, username, date_str, formatted_time) ==
    append_row(totals, <<username, date_str, formatted_time>>)

\* A variant of Upsert that leaves a row it finds as it is: C5 tells it from
\* Upsert.
UpsertKeepsFirst(totals, username, date_str, formatted_time) ==
    IF MatchingRows(TotalRecords(totals), username, date_str) # {}
    THEN totals
    ELSE append_row(totals, <<username, date_str, formatted_time>>)

\* A variant of Upsert that writes to the last row of the sheet when a row
\* matches: C15 tells it from Upsert.
UpsertWritesLastRow(totals, username, date_str, formatted_time) ==
    IF MatchingRows(TotalRecords(totals), username, date_str) # {}
    THEN update_cell(totals, Len(totals), 3, formatted_time)
    ELSE append_row(totals, <<username, date_str, formatted_time>>)

\* The for/else over existing_entries: the first matching row is updated in
\* place, and a row is appended when none matches.
Upsert(totals, username, date_str, formatted_time) ==
    LET rows == MatchingRows(TotalRecords(totals), username, date_str)
    IN IF rows # {}
       THEN update_cell(totals, FirstRow(rows), 3, formatted_time)
       ELSE append_row(totals, <<username, date_str, formatted_time>>)

\* ------------------------------------------------------ calculate_daily_hours

\* The store calls of calculate_daily_hours, each of which may raise.
CalcFaults == {"none", "read_logs", "read_totals", "write"}

\* What calculate_daily_hours hands back: whether an exception left it, the
\* value returned when none did, the "Totaux" sheet left behind, and the
\* total_seconds local behind a returned duration.
CalcRaised(totals) ==
    [raised |-> TRUE, ret |-> None, totals |-> totals, total_seconds |-> None]

CalcNone(totals) ==
    [raised |-> FALSE, ret |-> None, totals |-> totals, total_seconds |-> None]

\* The formatting and the upsert of a total_seconds that was computed. A store
\* call that raises has written nothing.
CalcStore(total_seconds, totals, username, date_str, fault) ==
    IF total_seconds.raised \/ fault \in {"read_totals", "write"}
    THEN CalcRaised(totals)
    ELSE [raised |-> FALSE,
          ret |-> FormatTime(total_seconds.value),
          totals |-> Upsert(totals, username, date_str,
                            FormatTime(total_seconds.value)),
          total_seconds |-> Some(total_seconds.value)]

\* A variant of CalcRecords without the return on an empty user_records: C9
\* tells it from CalcRecords.
CalcRecordsNoGuard(user_records, totals, username, date_str, fault) ==
    CalcStore(TotalSeconds(SortByHeure(user_records)), totals, username,
              date_str, fault)

\* The try block from the filtered user_records on.
CalcRecords(user_records, totals, username, date_str, fault) ==
    IF user_records = <<>> THEN CalcNone(totals)
    ELSE CalcStore(TotalSeconds(SortByHeure(user_records)), totals, username,
                   date_str, fault)

\* The try block of calculate_daily_hours with the store call named by `fault`
\* raising.
CalcTry(logs, totals, username, date_str, fault) ==
    IF fault = "read_logs" THEN CalcRaised(totals)
    ELSE CalcRecords(UserRecords(LogRecords(logs), username, date_str), totals,
                     username, date_str, fault)

\* A variant of CalcExcept that lets the exception through: C7 tells it from
\* CalcExcept.
CalcReraises(body) == body

\* "except Exception as e: ... return None" around the try block's outcome.
CalcExcept(body) == IF body.raised THEN CalcNone(body.totals) ELSE body

\* calculate_daily_hours(username, date_str) on the sheets `logs` and `totals`:
\* the guard on the globals, the try block, and the except clause that turns
\* any exception into a None result.
calculate_daily_hours(logs, totals, username, date_str, fault) ==
    IF logs = None \/ totals = None THEN CalcNone(totals)
    ELSE CalcExcept(CalcTry(logs, totals, username, date_str, fault))

\* ---------------------------------------------------------------- log_event

\* A log_event call that did not reach calculate_daily_hours.
NoCalc == [called |-> FALSE, raised |-> FALSE, ret |-> None,
           total_seconds |-> None]

\* What log_event hands back after the calculate_daily_hours call `r` on the
\* "Logs" sheet `logged`: the boolean returned, the two sheets left behind and
\* the call made. The value that calculate_daily_hours returned is dropped.
AfterCalc(logged, r) ==
    [ok |-> ~r.raised, logs |-> logged, totals |-> r.totals,
     calc |-> [called |-> TRUE, raised |-> r.raised, ret |-> r.ret,
               total_seconds |-> r.total_seconds]]

\* log_event once the row is appended.
AfterAppend(logged, totals, username, event_type, date_str, fault) ==
    IF event_type = "CHECK OUT"
    THEN AfterCalc(logged, calculate_daily_hours(logged, totals, username,
                                                 date_str, fault))
    ELSE [ok |-> TRUE, logs |-> logged, totals |-> totals, calc |-> NoCalc]

\* A variant of log_event that calculates before it appends the row: C11 tells
\* it from log_event.
log_eventCalcFirst(logs, totals, username, event_type, now_, append_fails, fault) ==
    IF logs = None \/ append_fails
    THEN [ok |-> FALSE, logs |-> logs, totals |-> totals, calc |-> NoCalc]
    ELSE IF event_type = "CHECK OUT"
    THEN AfterCalc(append_row(logs, <<username, now_.date,
                                     strftime_HMS(now_.secs), event_type>>),
                   calculate_daily_hours(logs, totals, username, now_.date,
                                         fault))
    ELSE AfterAppend(append_row(logs, <<username, now_.date,
                                       strftime_HMS(now_.secs), event_type>>),
                     totals, username, event_type, now_.date, fault)

\* log_event(username, event_type) at the clock reading `now_`, with the
\* append to "Logs" raising when `append_fails` and the store call `fault` of
\* calculate_daily_hours raising. With time_logs still None the append raises
\* AttributeError.
log_event(logs, totals, username, event_type, now_, append_fails, fault) ==
    IF logs = None \/ append_fails
    THEN [ok |-> FALSE, logs |-> logs, totals |-> totals, calc |-> NoCalc]
    ELSE AfterAppend(append_row(logs, <<username, now_.date,
                                       strftime_HMS(now_.secs), event_type>>),
                     totals, username, event_type, now_.date, fault)

\* ------------------------------------------------------------------- state

VARIABLES
    time_logs,      \* the "Logs" worksheet, or None before on_ready
    daily_totals,   \* the "Totaux" worksheet, or None before on_ready
    now,            \* the last reading of datetime.datetime.now()
    tasks,          \* the command tasks suspended in "await ctx.send(...)"
    call,           \* the calculate_daily_hours call of the last step, if any
    ret,            \* what that call returned
    total_seconds   \* the total_seconds behind the duration it returned

vars == <<time_logs, daily_totals, now, tasks, call, ret, total_seconds>>

Users == {"alice", "bob"}

\* The days the clock passes through, in order.
Days == <<"2024-03-01", "2024-03-02">>

Dates == {Days[i] : i \in 1..Len(Days)}

DayIndex(d) == CHOOSE i \in 1..Len(Days) : Days[i] = d

\* The clock never runs backwards.
NotBefore(a, b) ==
    \/ DayIndex(a.date) > DayIndex(b.date)
    \/ a.date = b.date /\ a.secs >= b.secs

\* The first "Totaux" cell of the user and date, or None.
StoredTotal(totals, username, date_str) ==
    LET rows == IF totals = None THEN {}
                ELSE MatchingRows(TotalRecords(totals), username, date_str)
    IN IF rows = {} THEN None ELSE Some(totals[FirstRow(rows)][3])

\* The record kept of a calculate_daily_hours call: its arguments, the store
\* call that raised, whether an exception reached the caller, the stored total
\* it found, and, when the step before was a call for the same user and date
\* and this one read the same "Logs" rows, that this call repeats it and what
\* the earlier call returned.
CallRecord(username, date_str, fault, raised, same_logs) ==
    LET repeats == /\ same_logs
                   /\ call # None
                   /\ The(call).username = username
                   /\ The(call).date_str = date_str
    IN Some([username |-> username, date_str |-> date_str, fault |-> fault,
             raised |-> raised,
             stored_before |-> StoredTotal(daily_totals, username, date_str),
             repeats |-> repeats,
             earlier_ret |-> IF repeats THEN ret ELSE None])

\* A step that calls calculate_daily_hours records the call; any other step
\* clears the record.
NoCall == call' = None /\ ret' = None /\ total_seconds' = None

\* --------------------------------------- calculate_daily_hours, called directly

\* Times of day, in seconds since midnight: 09:00:00, 12:00:00, 12:30:00,
\* 17:00:00.
ClockTimes == {32400, 43200, 45000, 61200}

\* A time cell that strptime refuses.
BadHeure == <<"x">>

\* The rows a "Logs" sheet may hold when calculate_daily_hours is called: any
\* event of alice on the first day, one row whose time cell is malformed, and
\* one row each of another user and of another day.
LogRowChoices ==
    {<<"alice", Days[1], strftime_HMS(t), e>> :
        t \in ClockTimes, e \in {"CHECK IN", "BREAK", "CHECK OUT"}}
    \cup {<<"alice", Days[1], BadHeure, "CHECK IN">>,
          <<"bob", Days[1], strftime_HMS(32400), "CHECK IN">>,
          <<"alice", Days[2], strftime_HMS(32400), "CHECK OUT">>}

\* Whether `row` may follow the rows of `sheet` in a sheet written in the
\* order of the clock: no earlier row of the same day holds a later time. A
\* malformed time cell is some later edit of the sheet and stands anywhere.
InClockOrder(sheet, row) ==
    \A i \in 2..Len(sheet) :
        (/\ sheet[i][2] = row[2]
         /\ ~strptime_HMS(sheet[i][3]).raised
         /\ ~strptime_HMS(row[3]).raised)
            => ~StrLess(row[3], sheet[i][3])

\* The sheets of at most n rows below the header, written in clock order.
RECURSIVE LogSheets(_)
LogSheets(n) ==
    IF n = 0 THEN {<<LogsHeader>>}
    ELSE LET shorter == LogSheets(n - 1)
         IN shorter \cup
            {append_row(q[1], q[2]) :
                q \in {p \in shorter \X LogRowChoices :
                          InClockOrder(p[1], p[2])}}

InitAgg ==
    /\ time_logs \in LogSheets(MaxLog)
    /\ daily_totals = <<TotauxHeader>>
    /\ now = [date |-> Days[1], secs |-> 32400]
    /\ tasks = <<>>
    /\ call = None
    /\ ret = None
    /\ total_seconds = None

\* What a calculate_daily_hours call that handed back `r` leaves behind.
Called(r, username, date_str, fault, same_logs) ==
    /\ call' = CallRecord(username, date_str, fault, r.raised, same_logs)
    /\ ret' = r.ret
    /\ total_seconds' = r.total_seconds
    /\ daily_totals' = r.totals

\* A direct call calculate_daily_hours(username, date_str).
Aggregate(username, date_str, fault) ==
    /\ Called(calculate_daily_hours(time_logs, daily_totals, username,
                                    date_str, fault),
              username, date_str, fault, TRUE)
    /\ UNCHANGED <<time_logs, now, tasks>>

\* One call on the sheets drawn by InitAgg and, after a call in which no store
\* call raised, one more for the same user and date.
NextAgg ==
    \/ \E username \in Users, date_str \in Dates, fault \in CalcFaults :
           call = None /\ Aggregate(username, date_str, fault)
    \/ \E fault \in CalcFaults :
           /\ call # None
           /\ ~The(call).repeats
           /\ The(call).fault = "none"
           /\ Aggregate(The(call).username, The(call).date_str, fault)

SpecAgg == InitAgg /\ [][NextAgg]_vars

\* --------------------------------------------------- the duration's formatting

\* The totals up to which every total_seconds is formatted.
MaxTotal == 125

\* The values of total_seconds formatted: every one up to MaxTotal, and the
\* totals around the unit boundaries of longer durations.
TotalSamples ==
    (0..MaxTotal) \cup
    {h * 3600 + m * 60 + sec :
        h \in {0, 1, 9, 10, 23, 24, 100}, m \in {0, 1, 9, 10, 55, 59},
        sec \in {0, 1, 9, 10, 59}}

InitFmt ==
    /\ time_logs = None
    /\ daily_totals = None
    /\ now = [date |-> Days[1], secs |-> 32400]
    /\ tasks = <<>>
    /\ call = None
    /\ ret = None
    /\ total_seconds \in {Some(n) : n \in TotalSamples}

\* Lines 148 to 154 of calculate_daily_hours on a total_seconds.
FormatDuration ==
    /\ total_seconds # None
    /\ ret = None
    /\ ret' = FormatTime(The(total_seconds))
    /\ UNCHANGED <<time_logs, daily_totals, now, tasks, call, total_seconds>>

SpecFmt == InitFmt /\ [][FormatDuration]_vars

\* ------------------------------------------- the scan over one user's day

\* The events of one user and date the scan is run over.
MaxScan == 5

\* The rows of one user and date: any event the scan knows, at any time.
ScanRowChoices ==
    {<<"alice", Days[1], strftime_HMS(t), e>> :
        t \in ClockTimes, e \in {"CHECK IN", "BREAK", "CHECK OUT"}}

\* The sheets of at most n such rows below the header, written in clock
\* order.
RECURSIVE ScanSheets(_)
ScanSheets(n) ==
    IF n = 0 THEN {<<LogsHeader>>}
    ELSE LET shorter == ScanSheets(n - 1)
         IN shorter \cup
            {append_row(q[1], q[2]) :
                q \in {p \in shorter \X ScanRowChoices :
                          InClockOrder(p[1], p[2])}}

InitScan ==
    /\ time_logs \in ScanSheets(MaxScan)
    /\ daily_totals = <<TotauxHeader>>
    /\ now = [date |-> Days[1], secs |-> 32400]
    /\ tasks = <<>>
    /\ call = None
    /\ ret = None
    /\ total_seconds = None

\* One call for the user and date of the rows, with no store call raising.
NextScan == call = None /\ Aggregate("alice", Days[1], "none")

SpecScan == InitScan /\ [][NextScan]_vars

\* ----------------------------------------------------------------- the bot

\* The readings of the clock the commands are handled at.
ClockReadings ==
    {[date |-> Days[1], secs |-> t] : t \in {32400, 43200}}
    \cup {[date |-> Days[2], secs |-> 32400]}

\* The module's globals before on_ready, and an idle event loop.
Init ==
    /\ time_logs = None
    /\ daily_totals = None
    /\ now = [date |-> Days[1], secs |-> 32400]
    /\ tasks = <<>>
    /\ call = None
    /\ ret = None
    /\ total_seconds = None

\* on_ready, at the first ready event, on a spreadsheet without the two
\* worksheets: init_sheets creates them with their header rows, or raises and
\* leaves the globals None.
on_ready(connected) ==
    /\ time_logs = None
    /\ IF connected
       THEN time_logs' = <<LogsHeader>> /\ daily_totals' = <<TotauxHeader>>
       ELSE UNCHANGED <<time_logs, daily_totals>>
    /\ UNCHANGED <<now, tasks>>
    /\ NoCall

\* A message of the bot: which of its texts it is and, for the status text,
\* the last event, the seconds worked since the last check-in of today (None
\* when that line is left out) and today's total (None when left out).
Message(kind) ==
    [kind |-> kind, last_event |-> None, working |-> None, total |-> None]

\* A command handler has run up to its "await ctx.send(message)"; `calc` is
\* the calculate_daily_hours call its log_event made.
Suspend(username, date_str, command, message, calc) ==
    tasks' = Append(tasks, [user |-> username, date |-> date_str,
                            command |-> command, message |-> message,
                            calc |-> IF calc.called THEN Some(calc.ret)
                                     ELSE None])

\* Whether a handler that logs an event may start: the event loop has room for
\* a task and the "Logs" sheet for a row.
MayLog(limit) ==
    /\ Len(tasks) < limit
    /\ time_logs # None => Len(time_logs) - 1 < MaxLog

\* What log_event leaves in the sheets and in the record of the step's
\* calculate_daily_hours call.
Logged(r, username, date_str, fault) ==
    /\ time_logs' = r.logs
    /\ daily_totals' = r.totals
    /\ IF r.calc.called
       THEN /\ call' = CallRecord(username, date_str, fault, r.calc.raised,
                                  FALSE)
            /\ ret' = r.calc.ret
            /\ total_seconds' = r.calc.total_seconds
       ELSE NoCall

\* A handler's steps after its log_event call handed back `r`: the message is
\* chosen on the boolean alone, and the handler suspends in its send.
Answer(r, username, date_str, fault, command, done, failed) ==
    /\ Logged(r, username, date_str, fault)
    /\ Suspend(username, date_str, command,
               Message(IF r.ok THEN done ELSE failed), r.calc)

\* !checkin
check_in(username, reading, append_fails, limit) ==
    /\ MayLog(limit)
    /\ NotBefore(reading, now)
    /\ now' = reading
    /\ Answer(log_event(time_logs, daily_totals, username, "CHECK IN", reading,
                        append_fails, "none"),
              username, reading.date, "none", "checkin",
              "started work", "logging failed")

\* !checkout
check_out(username, reading, append_fails, fault, limit) ==
    /\ MayLog(limit)
    /\ NotBefore(reading, now)
    /\ now' = reading
    /\ Answer(log_event(time_logs, daily_totals, username, "CHECK OUT", reading,
                        append_fails, fault),
              username, reading.date, fault, "checkout",
              "finished work", "logging failed")

\* The last 'BREAK START' or 'BREAK END' record of the user, or None.
LastBreak(records, username) ==
    LET idx == {i \in 1..Len(records) :
                    /\ records[i].Nom = username
                    /\ records[i].Evenement \in {"BREAK START", "BREAK END"}}
    IN IF idx = {} THEN None
       ELSE Some(records[CHOOSE i \in idx : \A j \in idx : j <= i])

\* A variant of BreakStarts that always finds no break open: C20 tells it from
\* BreakStarts.
BreakAlwaysStarts(last_break) == TRUE

\* Whether the user's break events say that no break is open.
BreakStarts(last_break) ==
    last_break = None \/ The(last_break).Evenement = "BREAK END"

\* The two branches of take_break.
BreakEvent(starts, username, reading, append_fails) ==
    Answer(log_event(time_logs, daily_totals, username,
                     IF starts THEN "BREAK START" ELSE "BREAK END",
                     reading, append_fails, "none"),
           username, reading.date, "none", "break",
           IF starts THEN "break started" ELSE "break ended",
           IF starts THEN "break logging failed"
           ELSE "break end logging failed")

\* !break. The read of "Logs" is outside any try: when it raises, or when
\* time_logs is still None, on_command_error answers.
take_break(username, reading, read_fails, append_fails, limit) ==
    /\ MayLog(limit)
    /\ NotBefore(reading, now)
    /\ now' = reading
    /\ IF time_logs = None \/ read_fails
       THEN /\ Suspend(username, reading.date, "break",
                       Message("command error"), NoCalc)
            /\ UNCHANGED <<time_logs, daily_totals>>
            /\ NoCall
       ELSE BreakEvent(BreakStarts(LastBreak(LogRecords(time_logs), username)),
                       username, reading, append_fails)

\* The store reads of status, each of which may raise.
StatusFaults == {"none", "read_logs", "read_totals"}

\* The message status sends for `username` at the clock reading `today`.
StatusMessage(logs, totals, username, today, fault) ==
    IF logs = None \/ fault = "read_logs" THEN Message("status failed")
    ELSE LET IsUser(r) == r.Nom = username
             IsToday(r) == r.Date = today.date
             IsCheckIn(r) == r.Evenement = "CHECK IN"
             user_logs == SelectSeq(LogRecords(logs), IsUser)
             check_ins == SelectSeq(SelectSeq(user_logs, IsToday), IsCheckIn)
             last_event == user_logs[Len(user_logs)]
             check_in_time == strptime_HMS(check_ins[Len(check_ins)].Heure)
         IN IF user_logs = <<>> THEN Message("no time logged")
            ELSE IF check_ins # <<>> /\ check_in_time.raised
            THEN Message("status failed")
            ELSE IF totals = None \/ fault = "read_totals"
            THEN Message("status failed")
            ELSE [kind |-> "status",
                  last_event |-> Some(<<last_event.Evenement, last_event.Heure,
                                        last_event.Date>>),
                  working |-> IF check_ins = <<>> THEN None
                              ELSE Some(today.secs - check_in_time.value),
                  total |-> StoredTotal(totals, username, today.date)]

\* !status
status(username, reading, fault, limit) ==
    /\ Len(tasks) < limit
    /\ NotBefore(reading, now)
    /\ now' = reading
    /\ Suspend(username, reading.date, "status",
               StatusMessage(time_logs, daily_totals, username, reading, fault),
               NoCalc)
    /\ UNCHANGED <<time_logs, daily_totals>>
    /\ NoCall

\* ctx.send completes for the i-th suspended task, which ends.
Send(i) ==
    /\ i \in 1..Len(tasks)
    /\ tasks' = SubSeq(tasks, 1, i - 1) \o SubSeq(tasks, i + 1, Len(tasks))
    /\ UNCHANGED <<time_logs, daily_totals, now>>
    /\ NoCall

\* The readings of the first day.
FirstDay == {reading \in ClockReadings : reading.date = Days[1]}

\* The commands of two users over one day, handled one at a time: a command's
\* task ends before the next command arrives.
Next ==
    \/ \E connected \in BOOLEAN : on_ready(connected)
    \/ \E username \in Users, reading \in FirstDay :
           \/ \E append_fails \in BOOLEAN :
                  check_in(username, reading, append_fails, 1)
           \/ \E append_fails \in BOOLEAN, fault \in CalcFaults :
                  check_out(username, reading, append_fails, fault, 1)
           \/ \E read_fails \in BOOLEAN, append_fails \in BOOLEAN :
                  take_break(username, reading, read_fails, append_fails, 1)
           \/ \E fault \in StatusFaults :
                  status(username, reading, fault, 1)
    \/ Send(1)

Spec == Init /\ [][Next]_vars

\* ------------------------------------------------------- concurrent commands

\* Command tasks the event loop holds at once.
MaxTasks == 3

\* The user whose commands overlap.
Racer == CHOOSE username \in Users : TRUE

\* Check-ins and check-outs of one user arriving while the tasks of earlier
\* commands are still suspended in their send. log_event and
\* calculate_daily_hours hold no await, so a handler runs from its start to its
\* send in one step of the loop.
NextTasks ==
    \/ on_ready(TRUE)
    \/ \E username \in {Racer}, reading \in ClockReadings :
           \/ \E append_fails \in BOOLEAN :
                  check_in(username, reading, append_fails, MaxTasks)
           \/ \E append_fails \in BOOLEAN, fault \in CalcFaults :
                  check_out(username, reading, append_fails, fault, MaxTasks)
    \/ \E i \in 1..MaxTasks : Send(i)

\* The event loop runs every task that can run.
SpecTasks == Init /\ [][NextTasks]_vars /\ WF_vars(NextTasks)

\* ================================================================ properties

\* The rows of "Logs" of the user and date of the recorded call, in the order
\* of the sheet. Every sheet of the specifications here is written in the
\* order of the clock, so this is the order of the events' times as well.
CallRows ==
    LET Mine(row) == /\ row[1] = The(call).username
                     /\ row[2] = The(call).date_str
    IN SelectSeq(Tail(time_logs), Mine)

\* The time cells strftime writes.
ClockCells == {strftime_HMS(t) : t \in ClockTimes}

\* The time of day a well-formed cell stands for.
ClockOf(cell) == CHOOSE t \in ClockTimes : strftime_HMS(t) = cell

WellTimed(rows) == \A i \in 1..Len(rows) : rows[i][3] \in ClockCells

TimeSorted(rows) ==
    \A i, j \in 1..Len(rows) : i < j => ClockOf(rows[i][3]) <= ClockOf(rows[j][3])

\* The events of the rows are exactly `events`.
EventsAre(rows, events) ==
    /\ Len(rows) = Len(events)
    /\ \A i \in 1..Len(rows) : rows[i][4] = events[i]

\* A call in which no store call raised.
Unfaulted == call # None /\ The(call).fault = "none"

\* The "Totaux" rows of a user and date.
TotalRows(username, date_str) ==
    MatchingRows(TotalRecords(daily_totals), username, date_str)

\* --------------------------------------------------------------------- C1

\* Check-ins and check-outs in pairs: a check-in, its check-out, and so on.
Paired(rows) ==
    /\ Len(rows) > 0
    /\ Len(rows) % 2 = 0
    /\ \A i \in 1..Len(rows) :
           rows[i][4] = IF i % 2 = 1 THEN "CHECK IN" ELSE "CHECK OUT"

\* The sum over the pairs of (checkOutTime - checkInTime).
RECURSIVE PairSum(_)
PairSum(rows) ==
    IF rows = <<>> THEN 0
    ELSE (ClockOf(rows[2][3]) - ClockOf(rows[1][3]))
         + PairSum(SubSeq(rows, 3, Len(rows)))

\* C1: for every time-sorted event sequence of one user and date that holds
\* only check-ins and check-outs in pairs (each check-in followed by its
\* check-out) and no break events, calculate_daily_hours returns exactly the
\* sum over the pairs of (checkOutTime - checkInTime), formatted.
C1_PairedSessionsSum ==
    (/\ Unfaulted
     /\ WellTimed(CallRows)
     /\ TimeSorted(CallRows)
     /\ Paired(CallRows))
        => /\ total_seconds = Some(PairSum(CallRows))
           /\ ret = FormatTime(PairSum(CallRows))

\* Two sessions of different lengths were summed: 09:00 to 12:00 and 12:30 to
\* 17:00.
C1_TwoSessionsSummed ==
    /\ Unfaulted
    /\ Paired(CallRows)
    /\ <<CallRows[1][3], CallRows[2][3]>>
           = <<strftime_HMS(32400), strftime_HMS(43200)>>
    /\ Len(CallRows) = 4
    /\ <<CallRows[3][3], CallRows[4][3]>>
           = <<strftime_HMS(45000), strftime_HMS(61200)>>
    /\ total_seconds = Some(27000)

\* --------------------------------------------------------------------- C2

\* C2, as stated: for every sequence [check-in at t0, break tag at t1] with
\* t0 <= t1 and nothing after it, calculate_daily_hours returns exactly
\* t1 - t0. The code counts the time before the break twice: once at the
\* break tag, and once more after the loop, where current_session_start is
\* still set.
C2_DanglingBreakCountedOnce ==
    (/\ Unfaulted
     /\ WellTimed(CallRows)
     /\ TimeSorted(CallRows)
     /\ EventsAre(CallRows, <<"CHECK IN", "BREAK">>))
        => total_seconds
               = Some(ClockOf(CallRows[2][3]) - ClockOf(CallRows[1][3]))

\* --------------------------------------------------------------------- C3

\* The scan's local variables after the first n of the rows.
ScanAfter(rows, n) ==
    Scan(ScanInit, LogRecords(<<LogsHeader>> \o SubSeq(rows, 1, n)))

\* C3: for every sequence [check-in t0, break tag t1, break tag t2, check-out
\* t3] with t0 <= t1 <= t2 <= t3, the first break tag starts a break and
\* accrues t1 - t0, the second ends the break and reopens the session at t2,
\* and the check-out accrues t3 - t2, so that the total is
\* (t1 - t0) + (t3 - t2); 09:00, 12:00, 12:30, 17:00 gives 7h30m00s.
C3_BreakTagToggles ==
    (/\ Unfaulted
     /\ WellTimed(CallRows)
     /\ TimeSorted(CallRows)
     /\ EventsAre(CallRows, <<"CHECK IN", "BREAK", "BREAK", "CHECK OUT">>))
        => LET t0 == ClockOf(CallRows[1][3])
               t1 == ClockOf(CallRows[2][3])
               t2 == ClockOf(CallRows[3][3])
               t3 == ClockOf(CallRows[4][3])
           IN /\ ScanAfter(CallRows, 2).in_break
              /\ ScanAfter(CallRows, 2).total_seconds = t1 - t0
              /\ ~ScanAfter(CallRows, 3).in_break
              /\ ScanAfter(CallRows, 3).current_session_start = Some(t2)
              /\ ScanAfter(CallRows, 3).total_seconds = t1 - t0
              /\ total_seconds = Some((t1 - t0) + (t3 - t2))
              /\ ret = FormatTime((t1 - t0) + (t3 - t2))
              /\ <<t0, t1, t2, t3>> = <<32400, 43200, 45000, 61200>>
                     => ret = <<"7", "h", "3", "0", "m", "0", "0", "s">>

\* The day of the example: 09:00, 12:00, 12:30, 17:00 came back as 7h30m00s.
C3_ExampleDay ==
    /\ Unfaulted
    /\ EventsAre(CallRows, <<"CHECK IN", "BREAK", "BREAK", "CHECK OUT">>)
    /\ [i \in 1..4 |-> CallRows[i][3]]
           = <<strftime_HMS(32400), strftime_HMS(43200),
               strftime_HMS(45000), strftime_HMS(61200)>>
    /\ ret = <<"7", "h", "3", "0", "m", "0", "0", "s">>

\* --------------------------------------------------------------------- C4

\* C4: calling calculate_daily_hours twice for the same user and date on an
\* unchanged "Logs" sheet gives the same formatted duration both times, and
\* afterwards "Totaux" holds exactly one row of that user and date.
C4_Idempotent ==
    (/\ Unfaulted
     /\ The(call).repeats)
        => /\ ret = The(call).earlier_ret
           /\ ret # None
                  => Cardinality(TotalRows(The(call).username,
                                           The(call).date_str)) = 1

\* A second call returned the duration of the first, which was not zero.
C4_RepeatedCall ==
    /\ Unfaulted
    /\ The(call).repeats
    /\ ret # None
    /\ ret = The(call).earlier_ret
    /\ The(total_seconds) > 0
    /\ Len(daily_totals) = 2

\* --------------------------------------------------------------------- C5

\* C5: after any sequence of calculate_daily_hours calls made one after the
\* other, "Totaux" holds at most one row per user and date, and the row of a
\* user and date holds the total of the latest call that computed one for
\* them, whatever an earlier call had stored.
C5_LastWriteWins ==
    daily_totals # None
        => /\ \A username \in Users, date_str \in Dates :
                  Cardinality(TotalRows(username, date_str)) <= 1
           /\ (call # None /\ ret # None)
                  => StoredTotal(daily_totals, The(call).username,
                                 The(call).date_str) = Some(ret)

\* A check-out replaced the different total an earlier check-out had stored.
C5_TotalOverwritten ==
    /\ call # None
    /\ ret # None
    /\ The(call).stored_before # None
    /\ The(The(call).stored_before) # ret
    /\ StoredTotal(daily_totals, The(call).username, The(call).date_str)
           = Some(ret)
    /\ Len(daily_totals) = 2

\* --------------------------------------------------------------------- C6

\* The seconds between each check-in that opens a session and the check-out
\* that closes it, over rows in the order of the clock.
RECURSIVE Worked(_, _)
Worked(rows, open) ==
    IF rows = <<>> THEN 0
    ELSE IF rows[1][4] = "CHECK IN"
    THEN Worked(Tail(rows),
                IF open = None THEN Some(ClockOf(rows[1][3])) ELSE open)
    ELSE IF rows[1][4] = "CHECK OUT"
    THEN (IF open = None THEN 0 ELSE ClockOf(rows[1][3]) - The(open))
         + Worked(Tail(rows), None)
    ELSE Worked(Tail(rows), open)

\* "Totaux" holds two rows of one user and date.
DuplicateRow ==
    /\ daily_totals # None
    /\ \E username \in Users, date_str \in Dates :
           Cardinality(TotalRows(username, date_str)) > 1

\* The check-out that just computed a total did not leave it in "Totaux", or
\* computed it from less than the rows logged so far.
LostUpdate ==
    /\ call # None
    /\ ret # None
    /\ \/ StoredTotal(daily_totals, The(call).username, The(call).date_str)
              # Some(ret)
       \/ total_seconds # Some(Worked(CallRows, None))

\* C6, as the code has it: check-outs of one user and date whose tasks are in
\* flight together do not interleave inside the upsert. A handler runs from
\* its start to its send without suspending, so no state holds a duplicate
\* "Totaux" row, and every check-out that computes a total leaves it in the
\* one row of its user and date, computed from every row logged so far.
C6_UpsertNotInterleaved == ~DuplicateRow /\ ~LostUpdate

\* C6, as stated: a state with a duplicate "Totaux" row or a lost update is
\* reached.
C6_RaceReached == <>(DuplicateRow \/ LostUpdate)

\* Two check-outs of one user and date are in flight together with different
\* totals, and "Totaux" holds the later one.
C6_CheckOutsInFlight ==
    /\ Len(tasks) = 3
    /\ \A i \in {1, 3} : /\ tasks[i].command = "checkout"
                         /\ tasks[i].user = tasks[1].user
                         /\ tasks[i].date = tasks[1].date
                         /\ tasks[i].calc # None
                         /\ The(tasks[i].calc) # None
    /\ tasks[1].calc # tasks[3].calc
    /\ StoredTotal(daily_totals, tasks[3].user, tasks[3].date) = tasks[3].calc
    /\ Len(daily_totals) = 2

\* --------------------------------------------------------------------- C7

\* The "Totaux" sheet as the recorded call found it. The calls of SpecAgg are
\* all for one user and date, so the sheet held their row or none.
TotalsBefore ==
    IF The(call).stored_before = None THEN <<TotauxHeader>>
    ELSE <<TotauxHeader,
           <<The(call).username, The(call).date_str,
             The(The(call).stored_before)>>>>

\* C7: if a read or a write of the store fails, or the time cell of an event
\* of the user and date does not parse, calculate_daily_hours returns None,
\* raises nothing to its caller and leaves "Totaux" exactly as it was.
C7_FailureLeavesTotals ==
    (/\ call # None
     /\ \/ The(call).fault # "none"
        \/ ~WellTimed(CallRows))
        => /\ ret = None
           /\ ~The(call).raised
           /\ daily_totals = TotalsBefore

\* A write failed in a call that found a stored total.
C7_WriteFailedOnStoredTotal ==
    /\ call # None
    /\ The(call).fault = "write"
    /\ The(call).stored_before # None
    /\ CallRows # <<>>
    /\ ret = None
    /\ daily_totals = TotalsBefore

\* --------------------------------------------------------------------- C8

\* C8, as stated: whenever the calculate_daily_hours call of a check-out
\* returns None, the user receives the failure notice and not the
\* confirmation. log_event drops what calculate_daily_hours returns and
\* answers True, so check_out confirms.
C8_AbsentTotalIsFailure ==
    \A i \in 1..Len(tasks) :
        (tasks[i].command = "checkout" /\ tasks[i].calc = Some(None))
            => tasks[i].message.kind = "logging failed"

\* --------------------------------------------------------------------- C9

\* C9: when "Logs" holds no event of the requested user and date,
\* calculate_daily_hours returns None and leaves "Totaux" unchanged: no row
\* updated, none appended.
C9_NoEventsNoTotal ==
    (call # None /\ CallRows = <<>>)
        => ret = None /\ ~The(call).raised /\ daily_totals = TotalsBefore

\* A call for a user and date without events, on a sheet that holds the
\* events of others.
C9_CalledWithoutEvents ==
    /\ Unfaulted
    /\ CallRows = <<>>
    /\ Len(time_logs) = MaxLog + 1
    /\ ret = None
    /\ daily_totals = <<TotauxHeader>>

\* -------------------------------------------------------------------- C10

DecimalDigits == <<"0", "1", "2", "3", "4", "5", "6", "7", "8", "9">>

IsDecimal(s) ==
    /\ s # <<>>
    /\ \A i \in 1..Len(s) : \E d \in 1..10 : DecimalDigits[d] = s[i]

\* The number a string of decimal digits stands for.
RECURSIVE Decimal(_)
Decimal(s) ==
    IF s = <<>> THEN 0
    ELSE 10 * Decimal(SubSeq(s, 1, Len(s) - 1))
         + (CHOOSE d \in 0..9 : DecimalDigits[d + 1] = s[Len(s)])

\* No zero stands before another digit.
Unpadded(s) == Len(s) > 1 => s[1] # "0"

\* C10: for every non-negative total_seconds the formatted duration is the
\* unpadded hours total_seconds div 3600, "h", the minutes
\* (total_seconds mod 3600) div 60, "m", the seconds total_seconds mod 60,
\* "s", the minutes and the seconds in two digits and in 0..59, with
\* hours * 3600 + minutes * 60 + seconds = total_seconds; 35701 gives
\* 9h55m01s and 0 gives 0h00m00s.
C10_Formatting ==
    (total_seconds # None /\ total_seconds \in {Some(n) : n \in TotalSamples}
     /\ ret # None)
        => LET n == The(total_seconds)
               len == Len(ret)
               hours == SubSeq(ret, 1, len - 7)
               minutes == SubSeq(ret, len - 5, len - 4)
               seconds == SubSeq(ret, len - 2, len - 1)
           IN /\ len >= 8
              /\ <<ret[len - 6], ret[len - 3], ret[len]>> = <<"h", "m", "s">>
              /\ IsDecimal(hours) /\ IsDecimal(minutes) /\ IsDecimal(seconds)
              /\ Unpadded(hours)
              /\ Decimal(hours) = n \div 3600
              /\ Decimal(minutes) = (n % 3600) \div 60
              /\ Decimal(seconds) = n % 60
              /\ Decimal(minutes) \in 0..59
              /\ Decimal(seconds) \in 0..59
              /\ Decimal(hours) * 3600 + Decimal(minutes) * 60
                     + Decimal(seconds) = n
              /\ n = 35701 => ret = <<"9", "h", "5", "5", "m", "0", "1", "s">>
              /\ n = 0 => ret = <<"0", "h", "0", "0", "m", "0", "0", "s">>

\* 35701 seconds were formatted as 9h55m01s.
C10_Example ==
    /\ total_seconds = Some(35701)
    /\ ret = <<"9", "h", "5", "5", "m", "0", "1", "s">>

\* -------------------------------------------------------------------- C11

\* C11: when a check-out is handled without a store fault, the check-out row
\* is appended to "Logs" before calculate_daily_hours reads the sheet, so
\* that the "Totaux" row of the user and today holds the total over all the
\* user's events of the day, the check-out just appended among them.
C11_CheckOutCounted ==
    Unfaulted
        => /\ The(call).date_str = now.date
           /\ time_logs[Len(time_logs)]
                  = <<The(call).username, now.date, strftime_HMS(now.secs),
                      "CHECK OUT">>
           /\ total_seconds = Some(Worked(CallRows, None))
           /\ StoredTotal(daily_totals, The(call).username, now.date)
                  = Some(FormatTime(Worked(CallRows, None)))

\* A check-out at 12:00 closed the session opened at 09:00 and stored
\* 3h00m00s.
C11_CheckOutClosedSession ==
    /\ Unfaulted
    /\ total_seconds = Some(10800)
    /\ Len(CallRows) = 2
    /\ StoredTotal(daily_totals, The(call).username, now.date)
           = Some(<<"3", "h", "0", "0", "m", "0", "0", "s">>)

\* -------------------------------------------------------------------- C12

\* The total calculate_daily_hours computes from the first n of the rows.
TotalAfter(rows, n) == EndOfRecords(ScanAfter(rows, n)).value

\* C12, as stated: for every event sequence whose last event is a check-in,
\* the total equals the total of the sequence without that check-in. After a
\* check-out issued during a break in_break stays set, so that a later
\* check-in opens a session that the block after the loop subtracts:
\* break_start - current_session_start is then negative.
C12_TrailingCheckInUncounted ==
    (/\ Unfaulted
     /\ CallRows # <<>>
     /\ CallRows[Len(CallRows)][4] = "CHECK IN")
        => total_seconds = Some(TotalAfter(CallRows, Len(CallRows) - 1))

\* -------------------------------------------------------------------- C13

\* The rows without the k-th.
Without(rows, k) == SubSeq(rows, 1, k - 1) \o SubSeq(rows, k + 1, Len(rows))

\* C13: a check-in processed while a session is open, on break or not, leaves
\* current_session_start, in_break and total_seconds as they are, so that
\* the total is the one of the sequence without that check-in.
C13_CheckInWhileOpenIgnored ==
    Unfaulted
        => \A k \in 1..Len(CallRows) :
               (/\ CallRows[k][4] = "CHECK IN"
                /\ ScanAfter(CallRows, k - 1).current_session_start # None)
                   => /\ ScanAfter(CallRows, k) = ScanAfter(CallRows, k - 1)
                      /\ total_seconds
                             = Some(TotalAfter(Without(CallRows, k),
                                               Len(CallRows) - 1))

\* A check-in at 12:00 during the session opened at 09:00, and one at 12:30
\* during its break, before the check-out at 17:00.
C13_CheckInsDuringSession ==
    /\ Unfaulted
    /\ EventsAre(CallRows, <<"CHECK IN", "CHECK IN", "BREAK", "CHECK IN",
                             "CHECK OUT">>)
    /\ <<CallRows[1][3], CallRows[2][3], CallRows[4][3]>>
           = <<strftime_HMS(32400), strftime_HMS(43200), strftime_HMS(45000)>>
    /\ ScanAfter(CallRows, 4).in_break
    /\ ScanAfter(CallRows, 4).current_session_start = Some(32400)

\* -------------------------------------------------------------------- C14

\* C14: a check-out adds (event time - current_session_start) to
\* total_seconds only if a session is open and the scan is not on break;
\* with no session, or on break, it leaves total_seconds unchanged; in every
\* case current_session_start is unset after it.
C14_CheckOutClosesSession ==
    Unfaulted
        => \A k \in 1..Len(CallRows) :
               CallRows[k][4] = "CHECK OUT"
                   => LET before == ScanAfter(CallRows, k - 1)
                          after == ScanAfter(CallRows, k)
                      IN /\ after.current_session_start = None
                         /\ after.total_seconds
                                = before.total_seconds
                                  + IF /\ before.current_session_start # None
                                       /\ ~before.in_break
                                    THEN ClockOf(CallRows[k][3])
                                         - The(before.current_session_start)
                                    ELSE 0

\* Check-outs with no session, closing a session, and during a break.
C14_ThreeCheckOuts ==
    /\ Unfaulted
    /\ EventsAre(CallRows, <<"CHECK OUT", "CHECK IN", "CHECK OUT", "CHECK IN",
                             "BREAK">>)
    /\ ScanAfter(CallRows, 3).total_seconds > 0

\* -------------------------------------------------------------------- C15

\* The step wrote `value` to the duration cell of row i of "Totaux" and
\* nothing else.
CellUpdated(i, value) ==
    /\ Len(daily_totals') = Len(daily_totals)
    /\ daily_totals'[i] = <<daily_totals[i][1], daily_totals[i][2], value>>
    /\ \A j \in 1..Len(daily_totals) : j # i => daily_totals'[j] = daily_totals[j]

\* The step appended `row` to "Totaux" and nothing else.
RowAppended(row) ==
    /\ Len(daily_totals') = Len(daily_totals) + 1
    /\ daily_totals'[Len(daily_totals')] = row
    /\ \A j \in 1..Len(daily_totals) : daily_totals'[j] = daily_totals[j]

\* What a calculate_daily_hours call that returned a duration did to "Totaux".
UpsertFrame ==
    (daily_totals # None /\ call' # None /\ ret' # None)
        => LET username == The(call').username
               date_str == The(call').date_str
               rows == {i \in 2..Len(daily_totals) :
                           /\ daily_totals[i][1] = username
                           /\ daily_totals[i][2] = date_str}
           IN IF rows # {}
              THEN CellUpdated(CHOOSE i \in rows : \A j \in rows : i <= j, ret')
              ELSE RowAppended(<<username, date_str, ret'>>)

\* C15: the upsert for a user and date changes only the duration cell of the
\* first "Totaux" row of that user and date, or appends exactly one row when
\* there is none; every other row is left as it is and no row is removed.
C15_UpsertTouchesOneRow == [][UpsertFrame]_vars

\* A check-out updated the row of its user in a sheet that holds the row of
\* another user after it.
C15_UpdatedBesideOtherRow ==
    /\ call # None
    /\ ret # None
    /\ The(call).stored_before # None
    /\ Len(daily_totals) = 3
    /\ daily_totals[2][1] = The(call).username
    /\ daily_totals[3][1] # The(call).username

\* -------------------------------------------------------------------- C16

\* The user's last check-in of the day in "Logs" is followed by a check-out.
CheckedOut(username, date_str) ==
    LET Mine(row) == row[1] = username /\ row[2] = date_str
        rows == SelectSeq(Tail(time_logs), Mine)
        ins == {k \in 1..Len(rows) : rows[k][4] = "CHECK IN"}
    IN /\ ins # {}
       /\ \E k \in 1..Len(rows) :
              /\ rows[k][4] = "CHECK OUT"
              /\ \A j \in ins : j < k

\* C16, as stated: status reports the time worked since the last check-in
\* only if a check-in of today is open; once the last check-in of today has
\* been followed by a check-out the line is left out. status looks only for a
\* CHECK IN among today's rows and never at what follows it.
C16_NoWorkingLineAfterCheckOut ==
    \A i \in 1..Len(tasks) :
        (/\ tasks[i].command = "status"
         /\ tasks[i].message.kind = "status"
         /\ CheckedOut(tasks[i].user, tasks[i].date))
            => tasks[i].message.working = None

\* -------------------------------------------------------------------- C17

\* C17, as stated: when a user checks in, starts and later ends a break with
\* the break command, and checks out on the same day, the total stored at the
\* check-out leaves out the break. take_break writes 'BREAK START' and
\* 'BREAK END', and the scan knows only 'BREAK': it passes over both rows and
\* counts the whole time from the check-in to the check-out.
C17_BreakCommandExcluded ==
    (/\ Unfaulted
     /\ EventsAre(CallRows, <<"CHECK IN", "BREAK START", "BREAK END",
                              "CHECK OUT">>))
        => /\ total_seconds
                  = Some((ClockOf(CallRows[2][3]) - ClockOf(CallRows[1][3]))
                         + (ClockOf(CallRows[4][3]) - ClockOf(CallRows[3][3])))
           /\ StoredTotal(daily_totals, The(call).username,
                          The(call).date_str) = Some(ret)

\* -------------------------------------------------------------------- C18

\* C18, as stated: after any check-out the scan is back to its initial state,
\* with no open session and not on break, so that a later check-in at t1
\* followed by a check-out at t2 adds exactly t2 - t1. A check-out clears
\* current_session_start only: issued during a break it leaves in_break set,
\* and the check-out of the next session adds nothing.
C18_CheckOutResetsScan ==
    Unfaulted
        => \A k \in 1..Len(CallRows) :
               CallRows[k][4] = "CHECK OUT"
                   => /\ ScanAfter(CallRows, k).current_session_start = None
                      /\ ~ScanAfter(CallRows, k).in_break
                      /\ (/\ k + 2 <= Len(CallRows)
                          /\ CallRows[k + 1][4] = "CHECK IN"
                          /\ CallRows[k + 2][4] = "CHECK OUT")
                             => ScanAfter(CallRows, k + 2).total_seconds
                                    = ScanAfter(CallRows, k).total_seconds
                                      + (ClockOf(CallRows[k + 2][3])
                                         - ClockOf(CallRows[k + 1][3]))

\* -------------------------------------------------------------------- C19

\* C19, as stated: for every non-empty time-sorted sequence of check-in,
\* break-tag and check-out events of one user and date, total_seconds is
\* never negative and never more than the time between the first and the
\* last event. A break left open is counted twice, and a session opened after
\* a check-out issued during a break is subtracted.
C19_TotalWithinDay ==
    (/\ Unfaulted
     /\ CallRows # <<>>
     /\ TimeSorted(CallRows))
        => /\ The(total_seconds) >= 0
           /\ The(total_seconds)
                  <= ClockOf(CallRows[Len(CallRows)][3])
                     - ClockOf(CallRows[1][3])

\* -------------------------------------------------------------------- C20

\* The break events of a user in "Logs", in the order of the sheet.
BreakEvents(username) ==
    LET Mine(row) == /\ row[1] = username
                     /\ row[4] \in {"BREAK START", "BREAK END"}
        rows == SelectSeq(Tail(time_logs), Mine)
    IN [k \in 1..Len(rows) |-> rows[k][4]]

\* C20: after any sequence of check-in, check-out, break and status commands
\* of any users, the break events of each user in "Logs" alternate BREAK
\* START, BREAK END, BREAK START, ..., the first being a BREAK START, also
\* when an attempt to log fails.
C20_BreaksAlternate ==
    time_logs # None
        => \A username \in Users :
               \A k \in 1..Len(BreakEvents(username)) :
                   BreakEvents(username)[k]
                       = IF k % 2 = 1 THEN "BREAK START" ELSE "BREAK END"

\* A user has started, ended and started a break, and the attempt to end the
\* second one failed to log.
C20_FailedBreakEnd ==
    /\ time_logs # None
    /\ \E username \in Users :
           /\ BreakEvents(username) = <<"BREAK START", "BREAK END", "BREAK START">>
           /\ Len(tasks) = 1
           /\ tasks[1].user = username
           /\ tasks[1].message.kind = "break end logging failed"

====
